---- MODULE Spec2Model ----
(***************************************************************************)
(* Model of the PDF extraction core (extract_pdf.js) and of the MCP tool   *)
(* handlers (server.js).  One behaviour is one call: a document on disk,   *)
(* a request, the steps of the asynchronous functions, the response.       *)
(* The adapters (mupdf, pdf-parse) and the file system are the environment: *)
(* what they answer is part of the document and of the call.  Pixel sizes  *)
(* and the dpi scale are adapter values that no step here branches on and  *)
(* are left out.                                                           *)
(***************************************************************************)
EXTENDS Integers, Sequences, FiniteSets, TLC

\* ------------------------------------------------------------------ bounds
MaxPages == 2    \* pages of a document
MaxBlocks == 3   \* image blocks met by the structured-text walks of a document

\* ------------------------------------------------------------- JS values
Undefined == [kind |-> "undefined"]
NullDir == [kind |-> "null"]   \* null where a directory is expected
Absent == "<absent>"   \* a property that is not there (undefined)
Null == "<null>"
EmptyString == ""

NoResult == [kind |-> "none"]
NoResponse == [kind |-> "none"]
NoError == [kind |-> "none"]

\* --------------------------------------------------------------- paths
\* A path is its directory segments plus the base name and extension of its
\* last segment; `abs` tells whether it starts at the root.
Cwd == <<"work">>

\* the path a direct caller passes, relative to the working directory
RelPdf == [abs |-> FALSE, dir |-> <<>>, base |-> "report", ext |-> ".pdf"]

\* the path an MCP client passes ("Absolute path to the PDF file")
AbsPdf == [abs |-> TRUE, dir |-> <<"docs">>, base |-> "report", ext |-> ".pdf"]

OutDir == [kind |-> "dir", abs |-> TRUE, dir |-> <<"out">>]

\* path.resolve: an absolute path is kept, a relative one is put under cwd
Resolve(p) ==
  IF p.abs THEN p
  ELSE [abs |-> TRUE, dir |-> Cwd \o p.dir, base |-> p.base, ext |-> p.ext]

\* path.dirname
Dirname(p) == [kind |-> "dir", abs |-> p.abs, dir |-> p.dir]

\* path.extname
Extname(p) == p.ext

\* path.basename(p, ext): the last segment without the extension
Basename(p, ext) == IF p.ext = ext THEN <<p.base>> ELSE <<p.base, p.ext>>

\* path.join(outputDir, fileName)
Join(dir, fileName) == [dir |-> dir, name |-> fileName]

\* ------------------------------------------------------------ documents
\* The text the adapter returns for a page, as characters: the odd pages
\* carry text between blanks, the even pages are blank.  A block of the
\* page's structured text is an image that decodes ("ok"), one whose
\* decoding, encoding or writing throws ("bad"), or the point where the
\* walk itself throws ("throw").
RawTextOf(pageNumber) ==
  IF pageNumber % 2 = 1 THEN <<" ", "x", " ">> ELSE <<" ">>

Statuses == {"ok", "bad", "throw"}

RECURSIVE SeqsUpTo(_, _)
SeqsUpTo(S, n) ==
  IF n = 0 THEN { <<>> }
  ELSE LET shorter == SeqsUpTo(S, n - 1)
       IN  shorter \cup { Append(s, x) : s \in shorter, x \in S }

\* the walk stops at the block where it throws
BlockSeqs ==
  { b \in SeqsUpTo(Statuses, MaxBlocks) :
      \A k \in 1..Len(b) : b[k] = "throw" => k = Len(b) }

RECURSIVE TotalBlocks(_, _)
TotalBlocks(blocks, k) ==
  IF k = 0 THEN 0 ELSE Len(blocks[k]) + TotalBlocks(blocks, k - 1)

PageSeqs ==
  { [k \in 1..Len(bs) |-> [raw |-> RawTextOf(k), blocks |-> bs[k]]] :
      bs \in { b \in UNION { [1..n -> BlockSeqs] : n \in 0..MaxPages } :
                 TotalBlocks(b, Len(b)) <= MaxBlocks } }

Docs ==
  { [exists |-> FALSE, opens |-> FALSE, pages |-> <<>>],
    [exists |-> TRUE, opens |-> FALSE, pages |-> <<>>] }
  \cup { [exists |-> TRUE, opens |-> TRUE, pages |-> ps] : ps \in PageSeqs }

\* ------------------------------------------------------------- metadata
Fields ==
  {"Title", "Author", "Subject", "Creator", "Producer", "CreationDate", "ModDate"}

EmptyInfo == [f \in Fields |-> Absent]

PartialInfo ==
  [f \in Fields |->
     CASE f = "Title" -> "My Document"
       [] f = "Author" -> EmptyString
       [] f = "Producer" -> "writer"
       [] OTHER -> Absent]

\* What PDFParse(dataBuffer) does: throws at once, returns a promise that
\* rejects, or one that resolves to data with or without an info dictionary.
MetaOutcomes ==
  { [kind |-> "throw", info |-> EmptyInfo],
    [kind |-> "reject", info |-> EmptyInfo],
    [kind |-> "noInfo", info |-> EmptyInfo],
    [kind |-> "info", info |-> PartialInfo] }

NotAsked == [kind |-> "notAsked", info |-> EmptyInfo]

\* mutant: the field is passed on as it is
OrNullKeep(x) == x

\* x || null
OrNull(x) == IF x = Absent \/ x = EmptyString THEN Null ELSE x

\* the metadata object of the result, extract_pdf.js 57-65
MetadataOf(metadata) ==
  [title |-> OrNull(metadata["Title"]),
   author |-> OrNull(metadata["Author"]),
   subject |-> OrNull(metadata["Subject"]),
   creator |-> OrNull(metadata["Creator"]),
   producer |-> OrNull(metadata["Producer"]),
   creationDate |-> OrNull(metadata["CreationDate"]),
   modDate |-> OrNull(metadata["ModDate"])]

\* ---------------------------------------------------------------- errors
FileNotFound(absolutePath) ==
  [kind |-> "error", cond |-> "FileNotFound",
   message |-> <<"PDF file not found: ", absolutePath>>]

DocumentOpenFailure ==
  [kind |-> "error", cond |-> "DocumentOpenFailure",
   message |-> <<"cannot open document">>]

MkdirFailure(dir) ==
  [kind |-> "error", cond |-> "FsFailure", message |-> <<"EACCES: mkdir ", dir>>]

\* fs.mkdirSync(null, ...) throws a TypeError (ERR_INVALID_ARG_TYPE)
InvalidPathArg ==
  [kind |-> "error", cond |-> "InvalidArgType",
   message |-> <<"The \"path\" argument must be of type string. Received null">>]

\* ------------------------------------------------------------ extractText
IsSpace(c) == c = " "

\* String.prototype.trim
RECURSIVE TrimLeft(_)
TrimLeft(s) ==
  IF s # <<>> /\ IsSpace(Head(s)) THEN TrimLeft(Tail(s)) ELSE s

RECURSIVE TrimRight(_)
TrimRight(s) ==
  IF s # <<>> /\ IsSpace(s[Len(s)]) THEN TrimRight(SubSeq(s, 1, Len(s) - 1)) ELSE s

Trim(s) == TrimRight(TrimLeft(s))

\* mutant: the page number is the loop index
RECURSIVE TextLoopZeroBased(_, _, _, _)
TextLoopZeroBased(d, i, totalPages, pages) ==
  IF i < totalPages
  THEN TextLoopZeroBased(d, i + 1, totalPages,
                         Append(pages, [page |-> i, text |-> Trim(d.pages[i + 1].raw)]))
  ELSE pages

\* the loop of extract_pdf.js 45-52, from index i with `pages` built so far
RECURSIVE TextLoop(_, _, _, _)
TextLoop(d, i, totalPages, pages) ==
  IF i < totalPages
  THEN TextLoop(d, i + 1, totalPages,
                Append(pages, [page |-> i + 1, text |-> Trim(d.pages[i + 1].raw)]))
  ELSE pages

\* extractText after the metadata attempt: open the document, walk the pages
TextBody(d, absolutePath, metadata) ==
  IF ~d.opens
  THEN [error |-> DocumentOpenFailure, result |-> NoResult,
        calls |-> {"openDocument"}]
  ELSE LET totalPages == Len(d.pages)
       IN  [error |-> NoError,
            result |-> [kind |-> "text",
                        file |-> absolutePath,
                        totalPages |-> totalPages,
                        metadata |-> MetadataOf(metadata),
                        pages |-> TextLoop(d, 0, totalPages, <<>>)],
            calls |-> {"openDocument", "countPages"}
                      \cup (IF totalPages > 0
                            THEN {"loadPage", "toStructuredText", "asText"}
                            ELSE {})]

\* ---------------------------------------------------------- extractImages
\* a destructuring default applies to a property that is undefined only
DefaultTo(x, d) == IF x = Undefined THEN d ELSE x

DefaultFormat(x) == IF x = Absent THEN "png" ELSE x

\* const { outputDir = dirname, format = "png", base64 = false } = options
OptionsOf(options, absolutePath) ==
  [outputDir |-> DefaultTo(options.outputDir, Dirname(absolutePath)),
   format |-> DefaultFormat(options.format),
   returnBase64 |-> options.base64]

\* pixmap.asJPEG(85) when the format is "jpeg", pixmap.asPNG() otherwise
Encode(format, source) ==
  [enc |-> IF format = "jpeg" THEN "jpeg" ELSE "png", pixels |-> source]

\* Buffer.from(imgBuffer).toString("base64")
Base64(imgBuffer) == [b64 |-> imgBuffer]

\* mutant: the MIME type ignores the format
MimeTypePng(format) == "image/png"

MimeType(format) == IF format = "jpeg" THEN "image/jpeg" ELSE "image/png"

Ext(format) == IF format = "jpeg" THEN "jpg" ELSE "png"

\* the artifact of the full page render, extract_pdf.js 129-146
PageRender(i, pdfBaseName, opts) ==
  LET imgBuffer == Encode(opts.format, <<i + 1, 0>>)
      imageInfo == [page |-> i + 1, imageIndex |-> 0, format |-> opts.format]
  IN  IF opts.returnBase64
      THEN imageInfo @@ [base64 |-> Base64(imgBuffer),
                         mimeType |-> MimeType(opts.format)]
      ELSE imageInfo @@
             [path |-> Join(opts.outputDir,
                            <<pdfBaseName, "_page_", i + 1, ".", Ext(opts.format)>>)]

\* the artifact of one image block, extract_pdf.js 194-219; k is the
\* position of the block in the page
EmbeddedImage(pageIndex, k, imageIndex, pdfBaseName, options) ==
  LET imgBuffer == Encode(options.format, <<pageIndex + 1, k>>)
      imageInfo == [page |-> pageIndex + 1, imageIndex |-> imageIndex,
                    format |-> options.format, type |-> "embedded", bbox |-> k]
  IN  IF options.returnBase64
      THEN imageInfo @@ [base64 |-> Base64(imgBuffer),
                         mimeType |-> MimeType(options.format)]
      ELSE imageInfo @@
             [path |-> Join(options.outputDir,
                            <<pdfBaseName, "_page_", pageIndex + 1, "_img_",
                              imageIndex, ".", Ext(options.format)>>)]

\* mutant: a block that throws still uses up its index
RECURSIVE WalkCountsSkipped(_, _, _, _, _, _, _, _)
WalkCountsSkipped(blocks, k, pageIndex, pdfBaseName, options, images, imageIndex, written) ==
  IF k > Len(blocks)
  THEN [threw |-> FALSE, images |-> images, written |-> written]
  ELSE IF blocks[k] = "throw"
  THEN [threw |-> TRUE, images |-> images, written |-> written]
  ELSE IF blocks[k] = "bad"
  THEN WalkCountsSkipped(blocks, k + 1, pageIndex, pdfBaseName, options,
                         images, imageIndex + 1, written)
  ELSE LET imageInfo ==
             EmbeddedImage(pageIndex, k, imageIndex, pdfBaseName, options)
       IN  WalkCountsSkipped(blocks, k + 1, pageIndex, pdfBaseName, options,
                             Append(images, imageInfo), imageIndex + 1,
                             IF options.returnBase64 THEN written
                             ELSE Append(written, imageInfo.path))

\* mutant: there is no try around the callback, a block that throws ends the
\* walk
RECURSIVE WalkStopsAtBad(_, _, _, _, _, _, _, _)
WalkStopsAtBad(blocks, k, pageIndex, pdfBaseName, options, images, imageIndex, written) ==
  IF k > Len(blocks)
  THEN [threw |-> FALSE, images |-> images, written |-> written]
  ELSE IF blocks[k] \in {"throw", "bad"}
  THEN [threw |-> TRUE, images |-> images, written |-> written]
  ELSE LET imageInfo ==
             EmbeddedImage(pageIndex, k, imageIndex, pdfBaseName, options)
       IN  WalkStopsAtBad(blocks, k + 1, pageIndex, pdfBaseName, options,
                          Append(images, imageInfo), imageIndex + 1,
                          IF options.returnBase64 THEN written
                          ELSE Append(written, imageInfo.path))

\* stext.walk({onImageBlock}) from block k: a block that throws inside the
\* callback is skipped and keeps its index free, a throw of the walk itself
\* leaves the function with what was written so far
RECURSIVE Walk(_, _, _, _, _, _, _, _)
Walk(blocks, k, pageIndex, pdfBaseName, options, images, imageIndex, written) ==
  IF k > Len(blocks)
  THEN [threw |-> FALSE, images |-> images, written |-> written]
  ELSE IF blocks[k] = "throw"
  THEN [threw |-> TRUE, images |-> images, written |-> written]
  ELSE IF blocks[k] = "bad"
  THEN Walk(blocks, k + 1, pageIndex, pdfBaseName, options,
            images, imageIndex, written)
  ELSE LET imageInfo ==
             EmbeddedImage(pageIndex, k, imageIndex, pdfBaseName, options)
       IN  Walk(blocks, k + 1, pageIndex, pdfBaseName, options,
                Append(images, imageInfo), imageIndex + 1,
                IF options.returnBase64 THEN written
                ELSE Append(written, imageInfo.path))

\* extractEmbeddedImages, extract_pdf.js 174-230
ExtractEmbeddedImages(page, pageIndex, pdfBaseName, options) ==
  Walk(page.blocks, 1, pageIndex, pdfBaseName, options, <<>>, 1, <<>>)

\* the loop of extract_pdf.js 108-161, from page index i
RECURSIVE ImagesLoop(_, _, _, _, _, _, _)
ImagesLoop(d, i, totalPages, pdfBaseName, opts, images, written) ==
  IF i < totalPages
  THEN LET imageInfo == PageRender(i, pdfBaseName, opts)
           embedded == ExtractEmbeddedImages(d.pages[i + 1], i, pdfBaseName, opts)
           written1 == IF opts.returnBase64 THEN written
                       ELSE Append(written, imageInfo.path)
       IN  ImagesLoop(d, i + 1, totalPages, pdfBaseName, opts,
                      Append(images, imageInfo)
                        \o (IF embedded.threw THEN <<>> ELSE embedded.images),
                      written1 \o embedded.written)
  ELSE [images |-> images, written |-> written]

\* mutant: the directory is created in inline mode too
MkdirAlways(opts) == {opts.outputDir}

\* if (!returnBase64) fs.mkdirSync(outputDir, { recursive: true })
MkdirIfDisk(opts) == IF opts.returnBase64 THEN {} ELSE {opts.outputDir}

\* extractImages once the file is known to exist, extract_pdf.js 88-168;
\* mkdirOk says whether fs.mkdirSync succeeds
ImagesBody(d, absolutePath, options, mkdirOk) ==
  LET opts == OptionsOf(options, absolutePath)
  IN  IF ~d.opens
      THEN [error |-> DocumentOpenFailure, result |-> NoResult, written |-> <<>>,
            dirs |-> {}, calls |-> {"openDocument"}]
      ELSE IF MkdirIfDisk(opts) # {} /\ opts.outputDir = NullDir
      THEN [error |-> InvalidPathArg, result |-> NoResult,
            written |-> <<>>, dirs |-> {},
            calls |-> {"openDocument", "countPages"}]
      ELSE IF MkdirIfDisk(opts) # {} /\ ~mkdirOk
      THEN [error |-> MkdirFailure(opts.outputDir), result |-> NoResult,
            written |-> <<>>, dirs |-> {},
            calls |-> {"openDocument", "countPages"}]
      ELSE LET totalPages == Len(d.pages)
               pdfBaseName == Basename(absolutePath, Extname(absolutePath))
               loop == ImagesLoop(d, 0, totalPages, pdfBaseName, opts, <<>>, <<>>)
           IN  [error |-> NoError,
                result |-> [kind |-> "images",
                            file |-> absolutePath,
                            totalPages |-> totalPages,
                            totalImages |-> Len(loop.images),
                            images |-> loop.images],
                written |-> loop.written,
                dirs |-> MkdirIfDisk(opts),
                calls |-> {"openDocument", "countPages"}
                          \cup (IF totalPages > 0
                                THEN {"loadPage", "toPixmap", "toStructuredText",
                                      "walk"}
                                ELSE {})]

\* mutant: the existence check is missing
ExtractImagesUnchecked(d, pdfPath, options, mkdirOk) ==
  ImagesBody(d, Resolve(pdfPath), options, mkdirOk)

\* extractImages(pdfPath, options), extract_pdf.js 81-169
ExtractImages(d, pdfPath, options, mkdirOk) ==
  LET absolutePath == Resolve(pdfPath)
  IN  IF ~d.exists
      THEN [error |-> FileNotFound(absolutePath), result |-> NoResult,
            written |-> <<>>, dirs |-> {}, calls |-> {}]
      ELSE ImagesBody(d, absolutePath, options, mkdirOk)

\* ------------------------------------------------------------- extractAll
\* mutant: the filter keeps the images of the earlier pages too
RECURSIVE FilterPageUpTo(_, _)
FilterPageUpTo(images, pageNumber) ==
  IF images = <<>> THEN <<>>
  ELSE (IF Head(images).page <= pageNumber THEN <<Head(images)>> ELSE <<>>)
       \o FilterPageUpTo(Tail(images), pageNumber)

\* imageResult.images.filter((img) => img.page === p.page)
RECURSIVE FilterPage(_, _)
FilterPage(images, pageNumber) ==
  IF images = <<>> THEN <<>>
  ELSE (IF Head(images).page = pageNumber THEN <<Head(images)>> ELSE <<>>)
       \o FilterPage(Tail(images), pageNumber)

\* the object built from the two results, extract_pdf.js 245-259
Combine(textResult, imageResult) ==
  [kind |-> "all",
   file |-> textResult.file,
   totalPages |-> textResult.totalPages,
   metadata |-> textResult.metadata,
   pages |-> [k \in 1..Len(textResult.pages) |->
                LET p == textResult.pages[k]
                IN  p @@ [images |-> FilterPage(imageResult.images, p.page)]],
   totalImages |-> imageResult.totalImages]

\* ------------------------------------------------------- MCP tool handlers
Truthy(x) == x # Null /\ x # Absent /\ x # EmptyString

\* img.type, img.path, img.base64 ... of an object that may lack the property
Prop(obj, name) == IF name \in DOMAIN obj THEN obj[name] ELSE Absent

Has(obj, name) == name \in DOMAIN obj

TextBlock(text) == [type |-> "text", text |-> text]

ImageBlock(img) == [type |-> "image", data |-> img.base64, mimeType |-> img.mimeType]

\* mutant: the handler has no catch branch
Rethrown(error) == [response |-> NoResponse, thrown |-> error]

\* the catch branch of each handler: the handler returns an error block
Caught(error) ==
  [response |-> [content |-> <<TextBlock(<<"Error: ", error.message>>)>>,
                 isError |-> TRUE],
   thrown |-> NoError]

\* the return at the end of the try block
Returned(content) == [response |-> [content |-> content], thrown |-> NoError]

\* page.text || "(empty page)"
PageTextOrEmpty(text) == IF text = <<>> THEN <<"(empty page)">> ELSE text

OptionalLine(label, value) == IF Truthy(value) THEN <<label, value>> ELSE <<>>

RECURSIVE PageLines(_)
PageLines(pages) ==
  IF pages = <<>> THEN <<>>
  ELSE <<"Page ", Head(pages).page, PageTextOrEmpty(Head(pages).text)>>
       \o PageLines(Tail(pages))

\* the handler of extract_pdf_text, server.js 33-65, given how extractText
\* settled
TextHandler(error, result) ==
  IF error # NoError THEN Caught(error)
  ELSE Returned(
          << TextBlock(<<"PDF Text Extraction: ", result.file,
                         "Total Pages: ", result.totalPages>>
                       \o OptionalLine("Title: ", result.metadata.title)
                       \o OptionalLine("Author: ", result.metadata.author)
                       \o OptionalLine("Subject: ", result.metadata.subject)
                       \o PageLines(result.pages)) >>)

RECURSIVE ImageLines(_)
ImageLines(images) ==
  IF images = <<>> THEN <<>>
  ELSE LET img == Head(images)
       IN  <<"Page ", img.page,
             IF Prop(img, "type") = "embedded"
             THEN <<"embedded image #", img.imageIndex>>
             ELSE <<"full page render">>>>
           \o (IF Has(img, "path") THEN <<"->", img.path>> ELSE <<>>)
           \o ImageLines(Tail(images))

\* one image block per artifact that has base64 data
RECURSIVE ImageBlocks(_)
ImageBlocks(images) ==
  IF images = <<>> THEN <<>>
  ELSE (IF Has(Head(images), "base64") THEN <<ImageBlock(Head(images))>> ELSE <<>>)
       \o ImageBlocks(Tail(images))

\* the handler of extract_pdf_images, server.js 104-156
ImagesHandler(returnBase64, error, result) ==
  IF error # NoError THEN Caught(error)
  ELSE Returned(
          << TextBlock(<<"PDF Image Extraction: ", result.file,
                         "Total Pages: ", result.totalPages,
                         "Total Images Extracted: ", result.totalImages>>
                       \o ImageLines(result.images)) >>
          \o (IF returnBase64 THEN ImageBlocks(result.images) ELSE <<>>))

\* mutant: only the page renders are sent
RECURSIVE PageBlocksRenderOnly(_, _)
PageBlocksRenderOnly(pages, k) ==
  IF k > Len(pages) THEN <<>>
  ELSE LET page == pages[k]
       IN  << TextBlock(<<"Page ", page.page, PageTextOrEmpty(page.text)>>
                        \o (IF Len(page.images) > 0
                            THEN <<Len(page.images), " image(s) on this page">>
                            ELSE <<>>)) >>
           \o ImageBlocks(SubSeq(page.images, 1, 1))
           \o PageBlocksRenderOnly(pages, k + 1)

\* the blocks of the pages, server.js 211-234
RECURSIVE PageBlocks(_, _)
PageBlocks(pages, k) ==
  IF k > Len(pages) THEN <<>>
  ELSE LET page == pages[k]
       IN  << TextBlock(<<"Page ", page.page, PageTextOrEmpty(page.text)>>
                        \o (IF Len(page.images) > 0
                            THEN <<Len(page.images), " image(s) on this page">>
                            ELSE <<>>)) >>
           \o ImageBlocks(page.images)
           \o PageBlocks(pages, k + 1)

\* the handler of extract_pdf_all, server.js 186-243
AllHandler(error, result) ==
  IF error # NoError THEN Caught(error)
  ELSE Returned(
          << TextBlock(<<"Full PDF Extraction: ", result.file,
                         "Total Pages: ", result.totalPages,
                         "Total Images: ", result.totalImages>>
                       \o OptionalLine("Title: ", result.metadata.title)
                       \o OptionalLine("Author: ", result.metadata.author)) >>
          \o PageBlocks(result.pages, 1))

\* the arguments after schema validation: format defaults to "png"
ZodFormat(format) == IF format = Absent THEN "png" ELSE format

\* -------------------------------------------------------------------- CLI
MaxArgs == 3   \* tokens of an argument vector

\* the tokens that start with "-"
FlagTokens ==
  {"--output-dir", "-o", "--format", "-f", "--dpi", "-d", "--base64", "-b",
   "--json", "-j", "--help", "-h"}

\* arg.startsWith("-")
StartsWithDash(arg) == arg \in FlagTokens

\* args[i] with i counted from 1; undefined past the end
ArgAt(args, i) == IF i <= Len(args) THEN args[i] ELSE Absent

\* the record parseArgs starts from, cli.js 29-37 (dpi is left out)
ParsedDefaults ==
  [command |-> Null, pdfPath |-> Null, outputDir |-> Null, format |-> "png",
   base64 |-> FALSE, json |-> FALSE]

\* the while loop of parseArgs, cli.js 40-78, at position i
RECURSIVE ParseLoop(_, _, _)
ParseLoop(args, i, parsed) ==
  IF i > Len(args) THEN parsed
  ELSE LET arg == args[i]
       IN  IF parsed.command = Null /\ ~StartsWithDash(arg)
           THEN ParseLoop(args, i + 1, [parsed EXCEPT !.command = arg])
           ELSE IF parsed.pdfPath = Null /\ ~StartsWithDash(arg)
                   /\ parsed.command # Null
           THEN ParseLoop(args, i + 1, [parsed EXCEPT !.pdfPath = arg])
           ELSE IF arg \in {"--output-dir", "-o"}
           THEN ParseLoop(args, i + 2,
                          [parsed EXCEPT !.outputDir = ArgAt(args, i + 1)])
           ELSE IF arg \in {"--format", "-f"}
           THEN ParseLoop(args, i + 2,
                          [parsed EXCEPT !.format = ArgAt(args, i + 1)])
           ELSE IF arg \in {"--dpi", "-d"}
           THEN ParseLoop(args, i + 2, parsed)
           ELSE IF arg \in {"--base64", "-b"}
           THEN ParseLoop(args, i + 1, [parsed EXCEPT !.base64 = TRUE])
           ELSE IF arg \in {"--json", "-j"}
           THEN ParseLoop(args, i + 1, [parsed EXCEPT !.json = TRUE])
           ELSE ParseLoop(args, i + 1, parsed)

\* parseArgs(args), cli.js 28-81
ParseArgs(args) == ParseLoop(args, 1, ParsedDefaults)

\* args.includes(x)
Includes(args, x) == \E i \in 1..Len(args) : args[i] = x

\* the path a command-line token names
PathArg(token) ==
  IF token = "report.pdf" THEN RelPdf
  ELSE [abs |-> FALSE, dir |-> <<>>, base |-> token, ext |-> ""]

\* the outputDir property handed to the core: null when the option is not
\* given, undefined when its value is missing
DirArg(token) ==
  IF token = Null THEN NullDir
  ELSE IF token = Absent THEN Undefined
  ELSE [kind |-> "dir", abs |-> FALSE, dir |-> <<token>>]

\* { outputDir: opts.outputDir, format: opts.format, base64: opts.base64 }
CliOptions(opts) ==
  [outputDir |-> DirArg(opts.outputDir), format |-> opts.format,
   base64 |-> opts.base64]

MissingPathMessage == <<"Error: Please provide a PDF file path.">>

\* mutant: the commands do not test opts.pdfPath
MainStartNoPathCheck(args) ==
  IF Len(args) = 0 \/ Includes(args, "--help") \/ Includes(args, "-h")
  THEN [kind |-> "exit", code |-> 0, out |-> <<"help">>, err |-> <<>>]
  ELSE LET opts == ParseArgs(args)
       IN  IF opts.command \in {"text", "images", "all"}
           THEN [kind |-> "extract", opts |-> opts]
           ELSE IF opts.command = "serve"
           THEN [kind |-> "serve"]
           ELSE [kind |-> "exit", code |-> 1, out |-> <<"help">>,
                 err |-> <<<<"Unknown command: ", opts.command>>>>]

\* main() up to the call of the core, cli.js 153-235: help, the missing
\* path, the unknown command, serve, or an extraction that starts
MainStart(args) ==
  IF Len(args) = 0 \/ Includes(args, "--help") \/ Includes(args, "-h")
  THEN [kind |-> "exit", code |-> 0, out |-> <<"help">>, err |-> <<>>]
  ELSE LET opts == ParseArgs(args)
       IN  IF opts.command \in {"text", "images", "all"}
           THEN IF opts.pdfPath = Null
                THEN [kind |-> "exit", code |-> 1, out |-> <<>>,
                      err |-> <<MissingPathMessage>>]
                ELSE [kind |-> "extract", opts |-> opts]
           ELSE IF opts.command = "serve"
           THEN [kind |-> "serve"]
           ELSE [kind |-> "exit", code |-> 1, out |-> <<"help">>,
                 err |-> <<<<"Unknown command: ", opts.command>>>>]

\* result.pages.flatMap((p) => p.images || [])
RECURSIVE FlatMapImages(_)
FlatMapImages(pages) ==
  IF pages = <<>> THEN <<>>
  ELSE Head(pages).images \o FlatMapImages(Tail(pages))

\* formatTextOutput, cli.js 114-131
FormatTextOutput(result) ==
  <<"PDF: ", result.file, "Pages: ", result.totalPages>>
  \o OptionalLine("Title: ", result.metadata.title)
  \o OptionalLine("Author: ", result.metadata.author)
  \o PageLines(result.pages)

\* formatImagesOutput, cli.js 133-151
FormatImagesOutput(result) ==
  <<"Images from: ", result.file, "Pages: ", result.totalPages,
    "Images: ", result.totalImages>>
  \o ImageLines(result.images)

\* what main prints once the core has returned, cli.js 170-221
CliPrints(command, json, result) ==
  IF json THEN << <<"JSON", result>> >>
  ELSE IF command = "text" THEN <<FormatTextOutput(result)>>
  ELSE IF command = "images" THEN <<FormatImagesOutput(result)>>
  ELSE << FormatTextOutput(result),
          FormatImagesOutput([file |-> result.file,
                              totalPages |-> result.totalPages,
                              totalImages |-> result.totalImages,
                              images |-> FlatMapImages(result.pages)]) >>

\* the end of main: the result is printed and the process ends with code 0,
\* or the catch block reports the error and exits with code 1
MainEnd(command, json, error, result) ==
  IF error # NoError
  THEN [code |-> 1, out |-> <<>>, err |-> << <<"Error: ", error.message>> >>]
  ELSE [code |-> 0, out |-> CliPrints(command, json, result), err |-> <<>>]

\* ------------------------------------------------------------------ state
VARIABLES
  doc,            \* the file at pdfPath
  canMkdir,       \* whether the output directory can be created
  req,            \* the call: entry point, pdfPath, options
  pc,             \* "idle", "running", "returned" (a tool handler has returned)
  metaOut,        \* what PDFParse did for this call
  textPc,         \* extractText: "idle", "awaitMeta", "done", "failed"
  textResult,
  textError,
  imgPc,          \* extractImages: "idle", "done", "failed"
  imageResult,
  imageError,
  firstRejected,  \* which promise of Promise.all rejected first
  allPc,          \* extractAll: "idle", "pending", "done", "failed"
  allResult,
  allError,
  response,       \* what the tool handler returned
  thrown,         \* what the tool handler threw
  dirs,           \* directories created by the call
  written,        \* paths passed to fs.writeFileSync, in order
  calls,          \* adapter entry points called
  exitCode,       \* the exit code of the CLI process, NotExited while it runs
  stdout,         \* what the CLI printed with console.log
  stderr          \* what the CLI printed with console.error

vars ==
  <<doc, canMkdir, req, pc, metaOut, textPc, textResult, textError, imgPc,
    imageResult, imageError, firstRejected, allPc, allResult, allError,
    response, thrown, dirs, written, calls, exitCode, stdout, stderr>>

NotExited == -1

NoRequest == [fn |-> "none"]

OutputDirs == {Undefined, OutDir}

\* options objects handed to extractImages and extractAll by a direct caller
CoreOptions ==
  [outputDir : OutputDirs, format : {Absent, "jpeg"}, base64 : BOOLEAN]

\* the state before the call, for a document among docs
InitWith(docs) ==
  /\ doc \in docs
  /\ canMkdir = TRUE
  /\ req = NoRequest
  /\ pc = "idle"
  /\ metaOut = NotAsked
  /\ textPc = "idle"
  /\ textResult = NoResult
  /\ textError = NoError
  /\ imgPc = "idle"
  /\ imageResult = NoResult
  /\ imageError = NoError
  /\ firstRejected = "none"
  /\ allPc = "idle"
  /\ allResult = NoResult
  /\ allError = NoError
  /\ response = NoResponse
  /\ thrown = NoError
  /\ dirs = {}
  /\ written = <<>>
  /\ calls = {}
  /\ exitCode = NotExited
  /\ stdout = <<>>
  /\ stderr = <<>>

Init == InitWith(Docs)

UsesAll(fn) == fn \in {"extractAll", "extract_pdf_all", "cli all"}

UsesText(fn) == UsesAll(fn) \/ fn \in {"extractText", "extract_pdf_text", "cli text"}

UsesImages(fn) ==
  UsesAll(fn) \/ fn \in {"extractImages", "extract_pdf_images", "cli images"}

\* a call starts; the file system refuses the directory only if it is asked
Started(fn, returnBase64) ==
  /\ pc = "idle"
  /\ pc' = "running"
  /\ canMkdir' \in (IF returnBase64 \/ ~UsesImages(fn) THEN {TRUE} ELSE BOOLEAN)
  /\ allPc' = IF UsesAll(fn) THEN "pending" ELSE "idle"
  /\ UNCHANGED <<doc, exitCode, stdout, stderr, metaOut, textPc, textResult, textError, imgPc, imageResult,
                 imageError, firstRejected, allResult, allError, response,
                 thrown, dirs, written, calls>>

Start(fn, pdfPath, options) ==
  /\ req' = [fn |-> fn, pdfPath |-> pdfPath, options |-> options]
  /\ Started(fn, options.base64)

NoOptions == [outputDir |-> Undefined, format |-> Absent, base64 |-> TRUE]

\* a direct call of extractText(pdfPath)
CallExtractText == Start("extractText", RelPdf, NoOptions)

\* a direct call of extractImages(pdfPath, options)
CallExtractImages ==
  \E options \in CoreOptions : Start("extractImages", RelPdf, options)

\* a direct call of extractAll(pdfPath, options)
CallExtractAll ==
  \E options \in CoreOptions : Start("extractAll", RelPdf, options)

\* tool extract_pdf_text: await extractText(pdfPath)
ToolText == Start("extract_pdf_text", AbsPdf, NoOptions)

\* tool extract_pdf_images: await extractImages(pdfPath, {outputDir, format,
\* base64: returnBase64, dpi})
ToolImages ==
  \E outputDir \in OutputDirs, format \in {Absent, "jpeg"}, returnBase64 \in BOOLEAN :
    Start("extract_pdf_images", AbsPdf,
          [outputDir |-> outputDir, format |-> ZodFormat(format),
           base64 |-> returnBase64])

\* tool extract_pdf_all: await extractAll(pdfPath, {outputDir, format,
\* base64: true, dpi})
ToolAll ==
  \E outputDir \in OutputDirs, format \in {Absent, "jpeg"} :
    Start("extract_pdf_all", AbsPdf,
          [outputDir |-> outputDir, format |-> ZodFormat(format), base64 |-> TRUE])

TextSettled == textPc \in {"done", "failed"}

Reject(who) == IF firstRejected = "none" THEN who ELSE firstRejected

\* data.info || {} after the await; {} when the promise rejected
InfoOf(m) == IF m.kind = "info" THEN m.info ELSE EmptyInfo

\* extractText up to its await: the existence check, the read and the call
\* of PDFParse; when PDFParse throws at once the function runs to its end
TextStart ==
  /\ pc = "running"
  /\ UsesText(req.fn)
  /\ textPc = "idle"
  /\ LET absolutePath == Resolve(req.pdfPath)
     IN  IF ~doc.exists
         THEN /\ textPc' = "failed"
              /\ textError' = FileNotFound(absolutePath)
              /\ firstRejected' = Reject("text")
              /\ UNCHANGED <<metaOut, textResult, calls>>
         ELSE \E m \in MetaOutcomes :
                /\ metaOut' = m
                /\ IF m.kind = "throw"
                   THEN LET body == TextBody(doc, absolutePath, EmptyInfo)
                        IN  /\ textPc' = IF body.error = NoError THEN "done"
                                         ELSE "failed"
                            /\ textResult' = body.result
                            /\ textError' = body.error
                            /\ firstRejected' = IF body.error = NoError
                                                THEN firstRejected
                                                ELSE Reject("text")
                            /\ calls' = calls \cup {"PDFParse"} \cup body.calls
                   ELSE /\ textPc' = "awaitMeta"
                        /\ calls' = calls \cup {"PDFParse"}
                        /\ UNCHANGED <<textResult, textError, firstRejected>>
  /\ UNCHANGED <<doc, exitCode, stdout, stderr, canMkdir, req, pc, imgPc, imageResult, imageError, allPc,
                 allResult, allError, response, thrown, dirs, written>>

\* mutant: the pages are collected in an array that the image task has
\* already filled when it ran during the await
TextResumeSharedArray ==
  /\ textPc = "awaitMeta"
  /\ pc # "exited"
  /\ LET body == TextBody(doc, Resolve(req.pdfPath), InfoOf(metaOut))
         shared == IF imgPc = "done" THEN imageResult.images ELSE <<>>
     IN  /\ textPc' = IF body.error = NoError THEN "done" ELSE "failed"
         /\ textResult' = IF body.error = NoError
                          THEN [body.result EXCEPT !.pages = shared \o @]
                          ELSE body.result
         /\ textError' = body.error
         /\ firstRejected' = IF body.error = NoError THEN firstRejected
                             ELSE Reject("text")
         /\ calls' = calls \cup body.calls
  /\ UNCHANGED <<doc, exitCode, stdout, stderr, canMkdir, req, pc, metaOut, imgPc, imageResult, imageError,
                 allPc, allResult, allError, response, thrown, dirs, written>>

\* extractText after its await
TextResume ==
  /\ textPc = "awaitMeta"
  /\ pc # "exited"
  /\ LET body == TextBody(doc, Resolve(req.pdfPath), InfoOf(metaOut))
     IN  /\ textPc' = IF body.error = NoError THEN "done" ELSE "failed"
         /\ textResult' = body.result
         /\ textError' = body.error
         /\ firstRejected' = IF body.error = NoError THEN firstRejected
                             ELSE Reject("text")
         /\ calls' = calls \cup body.calls
  /\ UNCHANGED <<doc, exitCode, stdout, stderr, canMkdir, req, pc, metaOut, imgPc, imageResult, imageError,
                 allPc, allResult, allError, response, thrown, dirs, written>>

\* extractImages: it has no await and runs to its end when it is called; in
\* extractAll it is called after extractText has reached its await
ImagesRun ==
  /\ pc = "running"
  /\ UsesImages(req.fn)
  /\ imgPc = "idle"
  /\ UsesAll(req.fn) => textPc # "idle"
  /\ LET body == ExtractImages(doc, req.pdfPath, req.options, canMkdir)
     IN  /\ imgPc' = IF body.error = NoError THEN "done" ELSE "failed"
         /\ imageResult' = body.result
         /\ imageError' = body.error
         /\ firstRejected' = IF body.error = NoError THEN firstRejected
                             ELSE Reject("images")
         /\ dirs' = dirs \cup body.dirs
         /\ written' = written \o body.written
         /\ calls' = calls \cup body.calls
  /\ UNCHANGED <<doc, exitCode, stdout, stderr, canMkdir, req, pc, metaOut, textPc, textResult, textError,
                 allPc, allResult, allError, response, thrown>>

\* mutant: the results are awaited one by one and a failure is dropped
AllJoinPartial ==
  /\ allPc = "pending"
  /\ imgPc # "idle"
  /\ TextSettled
  /\ allPc' = "done"
  /\ allResult' = [kind |-> "all", text |-> textResult, images |-> imageResult]
  /\ UNCHANGED allError
  /\ UNCHANGED <<doc, exitCode, stdout, stderr, canMkdir, req, pc, metaOut, textPc, textResult, textError,
                 imgPc, imageResult, imageError, firstRejected, response, thrown,
                 dirs, written, calls>>

\* await Promise.all([...]) in extractAll: it rejects with the first
\* rejection, and fulfils when both promises have
AllJoin ==
  /\ allPc = "pending"
  /\ imgPc # "idle"
  /\ IF firstRejected # "none"
     THEN /\ allPc' = "failed"
          /\ allError' = IF firstRejected = "text" THEN textError ELSE imageError
          /\ UNCHANGED allResult
     ELSE /\ textPc = "done"
          /\ imgPc = "done"
          /\ allPc' = "done"
          /\ allResult' = Combine(textResult, imageResult)
          /\ UNCHANGED allError
  /\ UNCHANGED <<doc, exitCode, stdout, stderr, canMkdir, req, pc, metaOut, textPc, textResult, textError,
                 imgPc, imageResult, imageError, firstRejected, response, thrown,
                 dirs, written, calls>>

HandlerReturns(outcome) ==
  /\ pc' = "returned"
  /\ response' = outcome.response
  /\ thrown' = outcome.thrown
  /\ UNCHANGED <<doc, exitCode, stdout, stderr, canMkdir, req, metaOut, textPc, textResult, textError,
                 imgPc, imageResult, imageError, firstRejected, allPc, allResult,
                 allError, dirs, written, calls>>

\* the handler of extract_pdf_text continues after its await
ToolTextReturn ==
  /\ pc = "running"
  /\ req.fn = "extract_pdf_text"
  /\ textPc \in {"done", "failed"}
  /\ HandlerReturns(TextHandler(textError, textResult))

ToolImagesReturn ==
  /\ pc = "running"
  /\ req.fn = "extract_pdf_images"
  /\ imgPc \in {"done", "failed"}
  /\ HandlerReturns(ImagesHandler(req.options.base64, imageError, imageResult))

ToolAllReturn ==
  /\ pc = "running"
  /\ req.fn = "extract_pdf_all"
  /\ allPc \in {"done", "failed"}
  /\ HandlerReturns(AllHandler(allError, allResult))

\* argument vectors of the runs of the command line
CliArgs ==
  { <<>>, <<"text">>, <<"serve">>,
    <<"text", "report.pdf">>,
    <<"images", "report.pdf">>,
    <<"images", "report.pdf", "-b">>,
    <<"images", "report.pdf", "-f", "gif", "-b">>,
    <<"images", "report.pdf", "-o", "out", "-f", "gif">>,
    <<"all", "report.pdf">>,
    <<"all", "report.pdf", "-o", "out">> }

\* main() of cli.js with process.argv.slice(2) among argvs, up to its first
\* await or to process.exit
CliStart(argvs) ==
  /\ pc = "idle"
  /\ \E args \in argvs :
       LET m == MainStart(args)
       IN  IF m.kind = "extract"
           THEN /\ req' = [fn |-> "cli " \o m.opts.command,
                           pdfPath |-> PathArg(m.opts.pdfPath),
                           options |-> CliOptions(m.opts),
                           argv |-> args,
                           command |-> m.opts.command,
                           json |-> m.opts.json]
                /\ Started("cli " \o m.opts.command, m.opts.base64)
           ELSE /\ req' = [fn |-> "cli", argv |-> args]
                /\ pc' = IF m.kind = "serve" THEN "serving" ELSE "exited"
                /\ exitCode' = IF m.kind = "serve" THEN NotExited ELSE m.code
                /\ stdout' = IF m.kind = "serve" THEN <<>> ELSE m.out
                /\ stderr' = IF m.kind = "serve" THEN <<>> ELSE m.err
                /\ UNCHANGED <<doc, canMkdir, metaOut, textPc, textResult,
                               textError, imgPc, imageResult, imageError,
                               firstRejected, allPc, allResult, allError,
                               response, thrown, dirs, written, calls>>

CliMain == CliStart(CliArgs)

\* main() after its await: the result is printed, or the catch block runs
CliReturn ==
  /\ pc = "running"
  /\ req.fn \in {"cli text", "cli images", "cli all"}
  /\ \/ req.fn = "cli text" /\ textPc \in {"done", "failed"}
     \/ req.fn = "cli images" /\ imgPc \in {"done", "failed"}
     \/ req.fn = "cli all" /\ allPc \in {"done", "failed"}
  /\ LET end == CASE req.fn = "cli text" ->
                       MainEnd(req.command, req.json, textError, textResult)
                  [] req.fn = "cli images" ->
                       MainEnd(req.command, req.json, imageError, imageResult)
                  [] req.fn = "cli all" ->
                       MainEnd(req.command, req.json, allError, allResult)
     IN  /\ exitCode' = end.code
         /\ stdout' = end.out
         /\ stderr' = end.err
  /\ pc' = "exited"
  /\ UNCHANGED <<doc, canMkdir, req, metaOut, textPc, textResult, textError,
                 imgPc, imageResult, imageError, firstRejected, allPc, allResult,
                 allError, response, thrown, dirs, written, calls>>

Next ==
  \/ CliMain
  \/ CliReturn
  \/ CallExtractText
  \/ CallExtractImages
  \/ CallExtractAll
  \/ ToolText
  \/ ToolImages
  \/ ToolAll
  \/ TextStart
  \/ TextResume
  \/ ImagesRun
  \/ AllJoin
  \/ ToolTextReturn
  \/ ToolImagesReturn
  \/ ToolAllReturn

Spec == Init /\ [][Next]_vars

\* ---- the command line alone, over every argument vector of the tokens
ArgTokens ==
  {"text", "images", "all", "serve", "report.pdf", "gif",
   "-o", "-f", "-b", "-j", "--help"}

AllArgs == SeqsUpTo(ArgTokens, MaxArgs)

DocsCli ==
  { d \in Docs :
      ~d.exists \/ (Len(d.pages) = 1 /\ d.pages[1].blocks = <<"ok">>) }

InitCli == InitWith(DocsCli)

CliMainAny == CliStart(AllArgs)

NextCli ==
  \/ CliMainAny
  \/ TextStart
  \/ TextResume
  \/ ImagesRun
  \/ AllJoin
  \/ CliReturn

SpecCli == InitCli /\ [][NextCli]_vars

\* ================================================================= claims
NumPages == Len(doc.pages)

Inline == req.options.base64

ImagesSettled == imgPc \in {"done", "failed"}

\* no directory is needed, or fs.mkdirSync succeeds
DirectoryReady == Inline \/ (canMkdir /\ req.options.outputDir # NullDir)

\* C1: for a document that opens with n pages (n = 0 included), extractText
\* raises no error and returns totalPages = n and exactly n page entries
\* numbered 1, 2, ..., n in that order.
C1_TextPagesContiguous ==
  (TextSettled /\ doc.exists /\ doc.opens) =>
    /\ textPc = "done"
    /\ textError = NoError
    /\ textResult.totalPages = NumPages
    /\ Len(textResult.pages) = NumPages
    /\ \A k \in 1..Len(textResult.pages) : textResult.pages[k].page = k

C1_Witness == textPc = "done" /\ Len(textResult.pages) >= 2

\* C2: the images sequence is ordered by page; each page contributes its page
\* render with imageIndex 0 and then its embedded artifacts with imageIndex
\* 1, 2, ..., N without gaps; totalImages is the length of the sequence.
C2_ImagesOrdered ==
  imgPc = "done" =>
    LET images == imageResult.images
    IN  /\ imageResult.totalImages = Len(images)
        /\ (NumPages = 0) = (images = <<>>)
        /\ images # <<>> =>
             /\ images[1].page = 1
             /\ images[1].imageIndex = 0
             /\ images[Len(images)].page = NumPages
        /\ \A k \in 1..Len(images) :
             (images[k].imageIndex = 0) = ~Has(images[k], "type")
        /\ \A k \in 1..(Len(images) - 1) :
             \/ /\ images[k + 1].page = images[k].page
                /\ images[k + 1].imageIndex = images[k].imageIndex + 1
                /\ Prop(images[k + 1], "type") = "embedded"
             \/ /\ images[k + 1].page = images[k].page + 1
                /\ images[k + 1].imageIndex = 0

C2_Witness ==
  /\ imgPc = "done"
  /\ NumPages = 2
  /\ \E p \in 1..NumPages : doc.pages[p].blocks = <<"bad", "ok", "ok">>

\* C3: every artifact has exactly one delivery form: in inline mode a base64
\* payload and a MIME type and no path, otherwise a path and neither base64
\* nor MIME type; inline jpeg artifacts have MIME type "image/jpeg".
C3_OneDeliveryForm ==
  imgPc = "done" =>
    \A k \in 1..Len(imageResult.images) :
      LET img == imageResult.images[k]
      IN  IF Inline
          THEN /\ Has(img, "base64")
               /\ Has(img, "mimeType")
               /\ ~Has(img, "path")
               /\ img.format = "jpeg" => img.mimeType = "image/jpeg"
          ELSE /\ Has(img, "path")
               /\ ~Has(img, "base64")
               /\ ~Has(img, "mimeType")

C3_Witness ==
  /\ imgPc = "done"
  /\ Inline
  /\ req.options.format = "jpeg"
  /\ \E k \in 1..Len(imageResult.images) : imageResult.images[k].imageIndex > 0

RECURSIVE ConcatImages(_, _)
ConcatImages(pages, k) ==
  IF k = 0 THEN <<>> ELSE ConcatImages(pages, k - 1) \o pages[k].images

\* C4: when both sub-operations succeed, extractAll keeps the pages of
\* extractText (order, numbers, text); each page lists the artifacts of
\* extractImages with its page number, in their order; every artifact is
\* under exactly one page, and totalImages is the sum of the per-page counts.
C4_CombineGroupsByPage ==
  allPc = "done" =>
    LET pages == allResult.pages
    IN  /\ textPc = "done" /\ imgPc = "done"
        /\ Len(pages) = Len(textResult.pages)
        /\ \A k \in 1..Len(pages) :
             /\ pages[k].page = textResult.pages[k].page
             /\ pages[k].text = textResult.pages[k].text
             /\ \A j \in 1..Len(pages[k].images) :
                  pages[k].images[j].page = pages[k].page
        /\ ConcatImages(pages, Len(pages)) = imageResult.images
        /\ allResult.totalImages = Len(ConcatImages(pages, Len(pages)))

C4_Witness ==
  /\ allPc = "done"
  /\ Len(allResult.pages) = 2
  /\ \A k \in 1..2 : Len(allResult.pages[k].images) >= 2

\* C5: if extractText or extractImages fails during extractAll, extractAll
\* fails with the condition raised by a failing sub-operation and yields no
\* result object.
C5_AllFailsWithSubFailure ==
  (UsesAll(req.fn) /\ (textPc = "failed" \/ imgPc = "failed")) =>
    /\ allPc # "done"
    /\ allResult = NoResult
    /\ (allPc = "pending" /\ imgPc # "idle") => ENABLED AllJoin
    /\ allPc = "failed" =>
         /\ allError # NoError
         /\ \/ textPc = "failed" /\ allError = textError
            \/ imgPc = "failed" /\ allError = imageError

C5_Witness ==
  /\ allPc = "failed"
  /\ textPc = "done"
  /\ imgPc = "failed"
  /\ allError.cond = "FsFailure"

\* C6: with a path that does not exist, extractText, extractImages and
\* extractAll fail with the file-not-found condition, no adapter is called,
\* no directory is created and no file is written.
C6_NotFoundBeforeAdapters ==
  (~doc.exists) =>
    /\ calls = {}
    /\ dirs = {}
    /\ written = <<>>
    /\ textPc \in {"idle", "failed"}
    /\ imgPc \in {"idle", "failed"}
    /\ allPc \in {"idle", "pending", "failed"}
    /\ textPc = "failed" => textError.cond = "FileNotFound"
    /\ imgPc = "failed" => imageError.cond = "FileNotFound"
    /\ allPc = "failed" => allError.cond = "FileNotFound"
    /\ (pc = "running" /\ UsesText(req.fn) /\ textPc = "idle") => ENABLED TextStart
    /\ (pc = "running" /\ UsesImages(req.fn) /\ ~UsesAll(req.fn) /\ imgPc = "idle")
         => ENABLED ImagesRun

C6_Witness ==
  /\ ~doc.exists
  /\ allPc = "failed"
  /\ textPc = "failed"
  /\ imgPc = "failed"
  /\ ~Inline

\* positions of the blocks of a page that decode
OkPositions(blocks) ==
  LET Decodes(k) == blocks[k] = "ok"
  IN  SelectSeq([k \in 1..Len(blocks) |-> k], Decodes)

\* the block positions of the embedded artifacts returned for page p
EmbeddedOf(images, p) ==
  LET OnPage(img) == img.page = p /\ img.imageIndex > 0
      kept == SelectSeq(images, OnPage)
  IN  [k \in 1..Len(kept) |-> kept[k].bbox]

RendersOf(images, p) ==
  LET IsRender(img) == img.page = p /\ img.imageIndex = 0
  IN  SelectSeq(images, IsRender)

WalkThrows(blocks) == \E k \in 1..Len(blocks) : blocks[k] = "throw"

\* C7: an embedded image that fails to decode, encode or be written does not
\* fail extractImages; the result has the page render of every page and, for
\* every page whose walk completes, every embedded image that did not fail.
C7_BadImageSkippedAlone ==
  (ImagesSettled /\ doc.opens /\ DirectoryReady) =>
    /\ imgPc = "done"
    /\ \A p \in 1..NumPages :
         /\ Len(RendersOf(imageResult.images, p)) = 1
         /\ ~WalkThrows(doc.pages[p].blocks) =>
              EmbeddedOf(imageResult.images, p) = OkPositions(doc.pages[p].blocks)

C7_Witness ==
  /\ imgPc = "done"
  /\ \E p \in 1..NumPages :
       /\ doc.pages[p].blocks = <<"ok", "bad", "ok">>
       /\ EmbeddedOf(imageResult.images, p) = <<1, 3>>

MetadataKey(f) ==
  CASE f = "Title" -> "title"
    [] f = "Author" -> "author"
    [] f = "Subject" -> "subject"
    [] f = "Creator" -> "creator"
    [] f = "Producer" -> "producer"
    [] f = "CreationDate" -> "creationDate"
    [] f = "ModDate" -> "modDate"

\* C8: a failure of the Metadata Adapter does not fail extractText: the
\* per-page text result is returned with every metadata field null; a field
\* the adapter does not supply is null.
C8_MetadataBestEffort ==
  /\ (TextSettled /\ doc.opens) =>
       textPc = "done" /\ Len(textResult.pages) = NumPages
  /\ textPc = "done" =>
       /\ DOMAIN textResult.metadata = { MetadataKey(f) : f \in Fields }
       /\ \A f \in Fields :
            (metaOut.kind # "info" \/ metaOut.info[f] = Absent) =>
              textResult.metadata[MetadataKey(f)] = Null

C8_Witness ==
  /\ textPc = "done"
  /\ metaOut.kind = "reject"
  /\ Len(textResult.pages) >= 1
  /\ textResult.metadata.title = Null

ToolFns == {"extract_pdf_text", "extract_pdf_images", "extract_pdf_all"}

\* the condition extractText, extractImages or extractAll raised to the tool
CoreError ==
  CASE req.fn = "extract_pdf_text" -> textError
    [] req.fn = "extract_pdf_images" -> imageError
    [] req.fn = "extract_pdf_all" -> allError
    [] OTHER -> NoError

CoreFailed ==
  \/ req.fn = "extract_pdf_text" /\ textPc = "failed"
  \/ req.fn = "extract_pdf_images" /\ imgPc = "failed"
  \/ req.fn = "extract_pdf_all" /\ allPc = "failed"

\* C9: when the Extraction Core raises a condition, each tool handler
\* returns: nothing is thrown, and the response is one text block holding
\* the condition's message, flagged isError.
C9_ToolErrorsBecomeBlocks ==
  /\ thrown = NoError
  /\ (pc = "running" /\ CoreFailed) =>
       ENABLED (ToolTextReturn \/ ToolImagesReturn \/ ToolAllReturn)
  /\ (pc = "returned" /\ CoreFailed) =>
       /\ Len(response.content) = 1
       /\ response.content[1].type = "text"
       /\ response.content[1].text = <<"Error: ", CoreError.message>>
       /\ Has(response, "isError")
       /\ response.isError = TRUE

C9_Witness ==
  /\ pc = "returned"
  /\ req.fn = "extract_pdf_images"
  /\ imgPc = "failed"
  /\ response.isError = TRUE

\* where the text block of page k stands in the content of extract_pdf_all
RECURSIVE PageOffset(_, _)
PageOffset(pages, k) ==
  IF k = 1 THEN 2 ELSE PageOffset(pages, k - 1) + 1 + Len(pages[k - 1].images)

ImageBlockCount(content) ==
  Cardinality({ k \in 1..Len(content) : content[k].type = "image" })

\* C10: extract_pdf_all calls extractAll in inline mode; on success the
\* content is a summary text block and then, page by page, one text block
\* followed by one image block for each image of the page in artifact order;
\* there are totalImages image blocks.
C10_AllToolContent ==
  /\ (req.fn = "extract_pdf_all") => Inline
  /\ (pc = "returned" /\ req.fn = "extract_pdf_all" /\ allPc = "done") =>
       LET content == response.content
           pages == allResult.pages
       IN  /\ ~Has(response, "isError")
           /\ Len(content) = 1 + Len(pages) + allResult.totalImages
           /\ content[1].type = "text"
           /\ ImageBlockCount(content) = allResult.totalImages
           /\ \A k \in 1..Len(pages) :
                LET at == PageOffset(pages, k)
                IN  /\ content[at].type = "text"
                    /\ content[at].text[2] = pages[k].page
                    /\ \A j \in 1..Len(pages[k].images) :
                         /\ content[at + j].type = "image"
                         /\ content[at + j].data = pages[k].images[j].base64
                         /\ content[at + j].mimeType = pages[k].images[j].mimeType

C10_Witness ==
  /\ pc = "returned"
  /\ req.fn = "extract_pdf_all"
  /\ allPc = "done"
  /\ Len(allResult.pages) = 2
  /\ allResult.totalImages >= 4
  /\ ImageBlockCount(response.content) = allResult.totalImages

\* ---- the command line
CliFns == {"cli text", "cli images", "cli all"}

CliExited == pc = "exited" /\ req.fn \in CliFns

\* the run came from `images` or `all` with neither --output-dir nor --base64
CliDefaultDiskRun ==
  /\ req.fn \in {"cli images", "cli all"}
  /\ ~Includes(req.argv, "-o")
  /\ ~Includes(req.argv, "-b")

\* C11: when the CLI commands images or all run on an existing valid PDF
\* without --output-dir and without --base64, extraction succeeds (exit code
\* 0, nothing on the error stream) and every image artifact is written into
\* the directory that contains the source PDF.
C11_CliDefaultsToPdfDirectory ==
  (CliExited /\ CliDefaultDiskRun /\ doc.exists /\ doc.opens /\ canMkdir) =>
    /\ exitCode = 0
    /\ stderr = <<>>
    /\ imgPc = "done"
    /\ Len(written) = Len(imageResult.images)
    /\ \A k \in 1..Len(written) :
         written[k].dir = Dirname(Resolve(req.pdfPath))

\* a run of the command line, with its argument vector in req.argv
CliRun == pc # "idle" /\ Has(req, "argv")

\* no positional token is left for the command
NoCommandToken(args) == ParseArgs(args).command = Null

\* the command needs a PDF path and no positional token is left for it
NoPathToken(args) ==
  /\ ParseArgs(args).command \in {"text", "images", "all"}
  /\ ParseArgs(args).pdfPath = Null

\* an error message on the error stream and a non-zero exit code, before
\* anything was extracted
UserError ==
  /\ pc = "exited"
  /\ exitCode # 0
  /\ exitCode # NotExited
  /\ stderr # <<>>
  /\ calls = {}
  /\ textPc = "idle"
  /\ imgPc = "idle"

\* the server is started and the process neither exits nor reports an error
ServeAccepted ==
  /\ pc = "serving"
  /\ exitCode = NotExited
  /\ stderr = <<>>

\* C12 as stated: for every CLI argument vector in which no command token is
\* present, or the command is text, images or all and no PDF path token is
\* present, the CLI writes an error message to the error stream and exits
\* with a non-zero code; the command serve is accepted without a PDF path.
C12_MissingArgIsUserError ==
  CliRun =>
    /\ (NoCommandToken(req.argv) \/ NoPathToken(req.argv)) => UserError
    /\ (ParseArgs(req.argv).command = "serve"
          /\ ParseArgs(req.argv).pdfPath = Null) => ServeAccepted

\* the vector asks for the help text: it is empty or holds --help or -h
AsksForHelp(args) ==
  Len(args) = 0 \/ Includes(args, "--help") \/ Includes(args, "-h")

\* C12 amended: the statement holds for every argument vector that is not
\* empty and holds neither --help nor -h; an empty vector or one with --help
\* or -h prints the help text on the output stream and exits with code 0
\* without reading the command.
C12_MissingArgIsUserErrorUnlessHelp ==
  CliRun =>
    IF AsksForHelp(req.argv)
    THEN pc = "exited" /\ exitCode = 0 /\ stderr = <<>> /\ stdout = <<"help">>
    ELSE /\ (NoCommandToken(req.argv) \/ NoPathToken(req.argv)) => UserError
         /\ (ParseArgs(req.argv).command = "serve"
               /\ ParseArgs(req.argv).pdfPath = Null) => ServeAccepted

C12_Witness ==
  /\ CliRun
  /\ req.argv = <<"images", "-f", "gif">>
  /\ UserError
  /\ stderr = <<MissingPathMessage>>

\* ---- the filesystem
\* the request reaches extractImages with base64 set
InlineRequest == pc # "idle" /\ Has(req, "options") /\ UsesImages(req.fn) /\ Inline

OuterImageFns == {"cli images", "cli all", "extract_pdf_images", "extract_pdf_all"}

\* the last piece of a file name, after the dot
ExtensionOf(path) == path.name[Len(path.name)]

\* the format, the encoding of the bytes, the MIME type and the file
\* extension of one artifact name the same one of png and jpeg
FormatAgrees(img) ==
  /\ img.format \in {"png", "jpeg"}
  /\ Has(img, "base64") =>
       /\ img.base64.b64.enc = img.format
       /\ img.mimeType = (IF img.format = "png" THEN "image/png" ELSE "image/jpeg")
  /\ Has(img, "path") =>
       ExtensionOf(img.path) = (IF img.format = "png" THEN "png" ELSE "jpg")

\* C14: for every request that reaches extractImages through the CLI or an
\* MCP tool, the format recorded on each artifact is either png or jpeg and
\* agrees with the encoding applied, with the MIME type and with the file
\* extension used on disk.
C14_FormatAgreesEverywhere ==
  (pc # "idle" /\ req.fn \in OuterImageFns /\ imgPc = "done") =>
    \A k \in 1..Len(imageResult.images) : FormatAgrees(imageResult.images[k])

\* ---- the two tasks of extractAll
\* extractText run alone on the file, with the same answer of PDFParse
SequentialText ==
  IF ~doc.exists
  THEN [error |-> FileNotFound(Resolve(req.pdfPath)), result |-> NoResult]
  ELSE TextBody(doc, Resolve(req.pdfPath), InfoOf(metaOut))

\* extractImages run alone on the file, after extractText has returned
SequentialImages == ExtractImages(doc, req.pdfPath, req.options, canMkdir)

AllSettled == pc # "idle" /\ UsesAll(req.fn) /\ allPc \in {"done", "failed"}

ArtifactsAt(images, file) == { j \in 1..Len(images) : images[j].path = file }

\* C16: after an extractImages call in disk mode that returns, the written
\* files and the returned artifacts correspond one to one: every written
\* file is the path of exactly one artifact, every artifact's path was
\* written, no two artifacts share a path, and no file is written that the
\* result does not reference, also when the enumeration of the embedded
\* images of a page fails part-way.
C16_FilesMatchArtifacts ==
  (pc # "idle" /\ Has(req, "options") /\ UsesImages(req.fn) /\ ~Inline
     /\ imgPc = "done") =>
    LET images == imageResult.images
    IN  /\ \A k \in 1..Len(written) :
             Cardinality(ArtifactsAt(images, written[k])) = 1
        /\ \A j \in 1..Len(images) : \E k \in 1..Len(written) :
             written[k] = images[j].path
        /\ Len(written) = Len(images)

====
